---- MODULE Spec2Model ----
(***************************************************************************)
(* A model of crates/oci/src/lib.rs: the OCI registry client of Spin.      *)
(* Client::push, Client::pull, Client::login, Client::auth and AuthConfig  *)
(* are modelled over a remote registry, a local content cache, the         *)
(* credential file and the OS credential helper.                           *)
(*                                                                         *)
(* Strings are sequences: a host, a reference or a server argument is a    *)
(* sequence of tokens ("ghcr.io", ":", "5000", "/", ...), a username, a    *)
(* password or a decoded credential is a sequence of bytes (ASCII codes),  *)
(* and a base64 text is a sequence of sextets 0..63 with 64 for '='.       *)
(***************************************************************************)
EXTENDS Integers, Sequences, FiniteSets, TLC

(* ------------------------------ bounds --------------------------------- *)

\* Longest username and longest password, in bytes.
MaxCredLen == 1

\* Most layers a manifest of the remote registry lists.
MaxLayers == 3

\* Most components of an application handed to push.
MaxComponents == 2

\* Most layers of the manifest two concurrent pulls fetch.
MaxRaceLayers == 2

(* ------------------------------ results -------------------------------- *)

Ok(v) == [ok |-> TRUE, val |-> v, err |-> "none"]

Err(e) == [ok |-> FALSE, val |-> <<>>, err |-> e]

\* All sequences over S of length at most n.
SeqsUpTo(S, n) == UNION {[1..k -> S] : k \in 0..n}

(* --------------------- base64, utf-8 and splitn ------------------------ *)

Colon == 58

PadSym == 64

\* base64::engine::general_purpose::STANDARD encode: three bytes to four
\* sextets, the last group padded with '='.
RECURSIVE Base64Encode(_)
Base64Encode(bs) ==
    IF Len(bs) = 0 THEN <<>>
    ELSE IF Len(bs) = 1 THEN
        << bs[1] \div 4, (bs[1] % 4) * 16, PadSym, PadSym >>
    ELSE IF Len(bs) = 2 THEN
        << bs[1] \div 4, (bs[1] % 4) * 16 + (bs[2] \div 16),
           (bs[2] % 16) * 4, PadSym >>
    ELSE
        << bs[1] \div 4, (bs[1] % 4) * 16 + (bs[2] \div 16),
           (bs[2] % 16) * 4 + (bs[3] \div 64), bs[3] % 64 >>
        \o Base64Encode(SubSeq(bs, 4, Len(bs)))

\* Decoding of one group of four symbols; last tells whether padding may occur.
DecodeQuad(q, last) ==
    LET a == q[1]  b == q[2]  c == q[3]  d == q[4] IN
    IF a = PadSym \/ b = PadSym THEN Err("invalid padding")
    ELSE IF c = PadSym THEN
        IF last /\ d = PadSym /\ b % 16 = 0
        THEN Ok(<< a * 4 + (b \div 16) >>)
        ELSE Err("invalid padding")
    ELSE IF d = PadSym THEN
        IF last /\ c % 4 = 0
        THEN Ok(<< a * 4 + (b \div 16), (b % 16) * 16 + (c \div 4) >>)
        ELSE Err("invalid padding")
    ELSE Ok(<< a * 4 + (b \div 16), (b % 16) * 16 + (c \div 4),
               (c % 4) * 64 + d >>)

\* base64 STANDARD decode: canonical padding required, trailing bits zero.
RECURSIVE Base64Decode(_)
Base64Decode(e) ==
    IF Len(e) = 0 THEN Ok(<<>>)
    ELSE IF Len(e) < 4 THEN Err("invalid length")
    ELSE
        LET head == DecodeQuad(SubSeq(e, 1, 4), Len(e) = 4) IN
        IF ~head.ok THEN head
        ELSE
            LET rest == Base64Decode(SubSeq(e, 5, Len(e))) IN
            IF ~rest.ok THEN rest ELSE Ok(head.val \o rest.val)

IsCont(b) == b >= 128 /\ b <= 191

\* std::str::from_utf8: the bytes are well-formed UTF-8.
RECURSIVE Utf8Valid(_)
Utf8Valid(bs) ==
    IF Len(bs) = 0 THEN TRUE
    ELSE
        LET b == bs[1]  n == Len(bs) IN
        IF b < 128 THEN Utf8Valid(SubSeq(bs, 2, n))
        ELSE IF b >= 194 /\ b <= 223 THEN
            n >= 2 /\ IsCont(bs[2]) /\ Utf8Valid(SubSeq(bs, 3, n))
        ELSE IF b >= 224 /\ b <= 239 THEN
            /\ n >= 3 /\ IsCont(bs[2]) /\ IsCont(bs[3])
            /\ (b = 224 => bs[2] >= 160)
            /\ (b = 237 => bs[2] <= 159)
            /\ Utf8Valid(SubSeq(bs, 4, n))
        ELSE IF b >= 240 /\ b <= 244 THEN
            /\ n >= 4 /\ IsCont(bs[2]) /\ IsCont(bs[3]) /\ IsCont(bs[4])
            /\ (b = 240 => bs[2] >= 144)
            /\ (b = 244 => bs[2] <= 143)
            /\ Utf8Valid(SubSeq(bs, 5, n))
        ELSE FALSE

FromUtf8(bs) == IF Utf8Valid(bs) THEN Ok(bs) ELSE Err("invalid utf-8")

\* Position of the first ':' of s, 0 when there is none.
FirstColon(s) ==
    IF \E i \in 1..Len(s) : s[i] = Colon
    THEN CHOOSE i \in 1..Len(s) :
            s[i] = Colon /\ \A j \in 1..(i - 1) : s[j] # Colon
    ELSE 0

\* decoded.splitn(2, ':'): at most two parts, split at the first ':'.
Splitn2(s) ==
    LET i == FirstColon(s) IN
    IF i = 0 THEN << s >>
    ELSE << SubSeq(s, 1, i - 1), SubSeq(s, i + 1, Len(s)) >>

(* --------------------------- RegistryAuth ------------------------------ *)

Anonymous == [kind |-> "Anonymous", username |-> <<>>, password |-> <<>>]

Basic(u, p) == [kind |-> "Basic", username |-> u, password |-> p]

(* ---------------------------- AuthConfig ------------------------------- *)

\* AuthConfig { auths: HashMap::new() }
EmptyAuths == [k \in {} |-> <<>>]

\* The credential file: absent, unparsable, or a JSON document with a table.
FileMissing == [state |-> "missing", auths |-> EmptyAuths]

FileCorrupt == [state |-> "corrupt", auths |-> EmptyAuths]

\* dirs::config_dir() finds no configuration directory.
FileNoDir == [state |-> "nodir", auths |-> EmptyAuths]

FileOf(auths) == [state |-> "ok", auths |-> auths]

\* AuthConfig::default_path
DefaultPath(file) ==
    IF file.state = "nodir" THEN Err("Cannot find configuration directory")
    ELSE Ok(<< "fermyon", "registry-auth.json" >>)

\* AuthConfig::load: read_to_string, then serde_json::from_str.
Load(file) ==
    IF file.state = "missing" THEN Err("cannot read file")
    ELSE IF file.state = "corrupt" THEN Err("cannot load authentication file")
    ELSE Ok(file.auths)

\* LoadDefault starting from an empty table whatever the file holds.
LoadDefaultEmpty(file) ==
    IF ~DefaultPath(file).ok THEN DefaultPath(file) ELSE Ok(EmptyAuths)

\* LoadDefault returning the error of a failed load.
LoadDefaultStrict(file) ==
    IF ~DefaultPath(file).ok THEN DefaultPath(file) ELSE Load(file)

\* AuthConfig::load_default: a failed load becomes an empty table.
LoadDefault(file) ==
    IF ~DefaultPath(file).ok THEN DefaultPath(file)
    ELSE
        LET r == Load(file) IN
        IF r.ok THEN Ok(r.val) ELSE Ok(EmptyAuths)

\* AuthConfig::insert: server -> base64(username ":" password).
Insert(auths, server, username, password) ==
    LET encoded == Base64Encode(username \o << Colon >> \o password) IN
    [k \in (DOMAIN auths) \cup {server} |->
        IF k = server THEN encoded ELSE auths[k]]

\* AuthConfig::get_auth_from_default
GetAuthFromDefault(file, server) ==
    LET auths == LoadDefault(file).val IN
    IF ~LoadDefault(file).ok THEN LoadDefault(file)
    ELSE IF server \notin DOMAIN auths THEN Err("no credentials stored")
    ELSE
        LET bytes == Base64Decode(auths[server]) IN
        IF ~bytes.ok THEN bytes
        ELSE
            LET decoded == FromUtf8(bytes.val) IN
            IF ~decoded.ok THEN decoded
            ELSE
                LET parts == Splitn2(decoded.val) IN
                IF Len(parts) < 2
                THEN Err("expected secret as second element")
                ELSE Ok(Basic(parts[1], parts[2]))

(* ------------------------ OS credential helper ------------------------- *)

\* docker_credential::get_credential outcomes.
HelperNone == [kind |-> "Err", username |-> <<>>, password |-> <<>>]

HelperToken == [kind |-> "IdentityToken", username |-> <<>>, password |-> <<>>]

HelperUserPass(u, p) == [kind |-> "UsernamePassword", username |-> u, password |-> p]

(* ----------------------------- Reference ------------------------------- *)

HostTokens == {"ghcr.io", "localhost"}

\* Reference::from_str on a token sequence: [domain [":" port] "/"] repo [":" tag].
ParseReference(s) ==
    LET mk(reg, repo, tag) ==
            Ok([registry |-> reg, repository |-> repo, tag |-> tag])
        tail(t, reg) ==
            IF Len(t) = 1 /\ t[1] = "app" THEN mk(reg, "app", "latest")
            ELSE IF Len(t) = 3 /\ t[1] = "app" /\ t[2] = ":" /\ t[3] = "v1"
            THEN mk(reg, "app", "v1")
            ELSE Err("invalid reference format")
    IN
    IF Len(s) >= 3 /\ s[1] \in HostTokens /\ s[2] = "/"
    THEN tail(SubSeq(s, 3, Len(s)), << s[1] >>)
    ELSE IF Len(s) >= 5 /\ s[1] \in HostTokens /\ s[2] = ":" /\ s[3] = "5000"
            /\ s[4] = "/"
    THEN tail(SubSeq(s, 5, Len(s)), SubSeq(s, 1, 3))
    ELSE IF Len(s) >= 1 /\ s[1] = "app"
    THEN LET r == tail(s, << "docker.io" >>) IN
         IF r.ok
         THEN mk(r.val.registry, "library/app", r.val.tag)
         ELSE r
    ELSE Err("invalid reference format")

\* Reference::resolve_registry
ResolveRegistry(ref) ==
    IF ref.registry = << "docker.io" >> THEN << "index.docker.io" >>
    ELSE ref.registry

\* Reference's Display: registry/repository:tag
RefToString(ref) == ref.registry \o << "/", ref.repository, ":", ref.tag >>

\* str::strip_suffix('/').unwrap_or_else(..)
StripSlash(s) ==
    IF Len(s) > 0 /\ s[Len(s)] = "/" THEN SubSeq(s, 1, Len(s) - 1) ELSE s

(* ---------------------------- Client::auth ----------------------------- *)

AuthServer(ref) == StripSlash(ResolveRegistry(ref))

\* The credential helper's answer for a server.
GetCredential(helper, server) ==
    IF server \in DOMAIN helper THEN helper[server] ELSE HelperNone

\* Auth asking the OS helper before the credential file.
AuthHelperFirst(file, helper, ref) ==
    LET server == AuthServer(ref)
        h == GetCredential(helper, server)
        c == GetAuthFromDefault(file, server) IN
    IF h.kind = "UsernamePassword" THEN Ok(Basic(h.username, h.password))
    ELSE IF c.ok THEN Ok(c.val)
    ELSE Ok(Anonymous)

\* Auth falling back only when no entry is stored, and returning every other
\* error of the lookup.
AuthPropagates(file, helper, ref) ==
    LET server == AuthServer(ref)
        c == GetAuthFromDefault(file, server)
        h == GetCredential(helper, server) IN
    IF c.ok THEN Ok(c.val)
    ELSE IF c.err # "no credentials stored" THEN c
    ELSE IF h.kind = "UsernamePassword" THEN Ok(Basic(h.username, h.password))
    ELSE Ok(Anonymous)

\* Client::auth: stored credential, else the OS helper, else anonymous.
Auth(file, helper, ref) ==
    LET server == AuthServer(ref)
        c == GetAuthFromDefault(file, server) IN
    IF c.ok THEN Ok(c.val)
    ELSE
        LET h == GetCredential(helper, server) IN
        IF h.kind = "UsernamePassword"
        THEN Ok(Basic(h.username, h.password))
        ELSE Ok(Anonymous)

(* --------------------------- content layers ---------------------------- *)

SPIN_APPLICATION_MEDIA_TYPE == "application/vnd.fermyon.spin.application.v1+config"

WASM_LAYER_MEDIA_TYPE == "application/vnd.wasm.content.layer.v1+wasm"

DATA_MEDIATYPE == "application/vnd.wasm.content.layer.v1+data"

\* A media type this client does not know.
OTHER_MEDIATYPE == "application/octet-stream"

\* Blob contents.
Contents == {"B1", "B2", "B3"}

\* The sha-256 digest of a blob: a function of the bytes, without collisions.
Sha256(bytes) == << "sha256", bytes >>

None == <<>>

Some(x) == << x >>

\* ImageLayer::new(data, media_type, None)
ImageLayer(data, media) == [data |-> data, media_type |-> media]

\* ImageLayer::sha256_digest
Sha256Digest(layer) == Sha256(layer.data)

\* serde_json serialization of a document: an injective text encoding.
ToJson(doc) == [json |-> doc, utf8 |-> TRUE]

(* ------------------------- the local file system ----------------------- *)

\* The working directory the locked application points into. Paths are
\* sequences of names. Two assets are byte-identical to each other
\* (assets/a.txt and assets/sub/b.txt), one asset (assets/sub/c.bin) is
\* byte-identical to the module a.wasm and one (static/a.txt) to b.wasm.
FsKind(p) ==
    CASE p = << "app", "a.wasm" >> -> "file"
      [] p = << "app", "b.wasm" >> -> "file"
      [] p = << "app", "assets" >> -> "dir"
      [] p = << "app", "assets", "a.txt" >> -> "file"
      [] p = << "app", "assets", "link" >> -> "symlink"
      [] p = << "app", "assets", "sub" >> -> "dir"
      [] p = << "app", "assets", "sub", "b.txt" >> -> "file"
      [] p = << "app", "assets", "sub", "c.bin" >> -> "file"
      [] p = << "app", "empty" >> -> "dir"
      [] p = << "app", "static" >> -> "dir"
      [] p = << "app", "static", "a.txt" >> -> "file"
      [] OTHER -> "absent"

FsBytes(p) ==
    CASE p = << "app", "a.wasm" >> -> "B1"
      [] p = << "app", "b.wasm" >> -> "B2"
      [] p = << "app", "assets", "a.txt" >> -> "B3"
      [] p = << "app", "assets", "sub", "b.txt" >> -> "B3"
      [] p = << "app", "assets", "sub", "c.bin" >> -> "B1"
      [] p = << "app", "static", "a.txt" >> -> "B2"
      [] OTHER -> ""

\* The directory's entries, in the order the OS lists them.
FsChildren(p) ==
    CASE p = << "app", "assets" >> -> << "a.txt", "link", "sub" >>
      [] p = << "app", "assets", "sub" >> -> << "b.txt", "c.bin" >>
      [] p = << "app", "static" >> -> << "a.txt" >>
      [] OTHER -> <<>>

\* Every path of the working directory.
FsPaths ==
    { << "app", "a.wasm" >>, << "app", "b.wasm" >>, << "app", "assets" >>,
      << "app", "assets", "a.txt" >>, << "app", "assets", "link" >>,
      << "app", "assets", "sub" >>, << "app", "assets", "sub", "b.txt" >>,
      << "app", "assets", "sub", "c.bin" >>, << "app", "empty" >>,
      << "app", "static" >>, << "app", "static", "a.txt" >> }

\* tokio::fs::read
ReadFile(p) == IF FsKind(p) = "file" THEN Ok(FsBytes(p)) ELSE Err("io error")

\* WalkDir::new(root): the root, then every entry below it, depth first;
\* symlinks are listed and not followed.
RECURSIVE WalkTree(_)
RECURSIVE WalkChildren(_, _)
WalkTree(p) ==
    << p >> \o (IF FsKind(p) = "dir" THEN WalkChildren(p, FsChildren(p)) ELSE <<>>)

WalkChildren(p, names) ==
    IF names = <<>> THEN <<>>
    ELSE WalkTree(Append(p, Head(names))) \o WalkChildren(p, Tail(names))

\* The walk of a root that does not exist yields an error entry.
WalkDir(root) ==
    IF FsKind(root) = "absent" THEN Err("walkdir: no such file or directory")
    ELSE Ok(WalkTree(root))

\* spin_loader::to_relative(path, root)
ToRelative(path, root) == SubSeq(path, Len(root) + 1, Len(path))

\* spin_trigger::parse_file_url: "file://" followed by the path.
ParseFileUrl(url) ==
    IF Len(url) = 2 /\ url[1] = "file://" THEN Ok(url[2])
    ELSE Err("invalid file URL")

FileUrl(path) == << "file://", path >>

(* --------------------------- Client::push ------------------------------ *)

ContentRef(source, digest) == [source |-> source, digest |-> digest]

ContentPath(content, path) == [content |-> content, path |-> path]

\* Client::wasm_layer
WasmLayer(file) ==
    LET r == ReadFile(file) IN
    IF r.ok THEN Ok(ImageLayer(r.val, WASM_LAYER_MEDIA_TYPE))
    ELSE Err("cannot read wasm module")

\* Client::data_layer
DataLayer(file) ==
    LET r == ReadFile(file) IN
    IF r.ok THEN Ok(ImageLayer(r.val, DATA_MEDIATYPE)) ELSE r

\* What push does with a layer it has just built: layers.push(layer).
PushLayer(layers, layer) == Append(layers, layer)

\* LayerRef leaving the digest out.
LayerRefNoDigest(layer) == ContentRef(None, None)

\* The rewritten reference of a layer: ContentRef { source: None, digest }.
LayerRef(layer) == ContentRef(None, Some(Sha256Digest(layer)))

\* Whether a walked entry becomes a layer: a regular file.
IsAsset(entry) == FsKind(entry) = "file" /\ FsKind(entry) # "dir"

\* AddAsset recording one entry per digest.
AddAssetOnce(acc, layer, rel) ==
    [layers |-> PushLayer(acc.layers, layer),
     files |-> IF \E j \in 1..Len(acc.files) :
                      acc.files[j].content = LayerRef(layer)
               THEN acc.files
               ELSE Append(acc.files, ContentPath(LayerRef(layer), rel))]

\* Lines 108-117: the layer of an asset is appended and its entry recorded.
AddAsset(acc, layer, rel) ==
    [layers |-> PushLayer(acc.layers, layer),
     files |-> Append(acc.files, ContentPath(LayerRef(layer), rel))]

\* The loop over the entries of one mount directory (lines 99-119).
\* acc = [layers, files].
RECURSIVE MountEntries(_, _, _)
MountEntries(entries, root, acc) ==
    IF entries = <<>> THEN Ok(acc)
    ELSE IF ~IsAsset(Head(entries)) THEN MountEntries(Tail(entries), root, acc)
    ELSE IF ~DataLayer(Head(entries)).ok THEN DataLayer(Head(entries))
    ELSE MountEntries(Tail(entries), root,
            AddAsset(acc, DataLayer(Head(entries)).val,
                     ToRelative(Head(entries), root)))

\* MountRoot taking a mount without a source for an empty directory.
MountRootLenient(f) ==
    IF f.content.source = None THEN Ok(<< "app", "empty" >>)
    ELSE ParseFileUrl(f.content.source[1])

\* Lines 92-96: the directory a file mount points at.
MountRoot(f) ==
    IF f.content.source = None
    THEN Err("file mount loaded from disk should contain a file source")
    ELSE ParseFileUrl(f.content.source[1])

\* Lines 99-100: the walk of one mount directory; an error entry aborts.
WalkMount(root, acc) ==
    IF ~WalkDir(root).ok THEN WalkDir(root)
    ELSE MountEntries(WalkDir(root).val, root, acc)

\* The loop over the file mounts of one component (lines 91-120).
RECURSIVE ComponentFiles(_, _)
RECURSIVE ComponentFilesRest(_, _)
ComponentFiles(mounts, acc) ==
    IF mounts = <<>> THEN Ok(acc)
    ELSE IF ~MountRoot(Head(mounts)).ok THEN MountRoot(Head(mounts))
    ELSE ComponentFilesRest(mounts, WalkMount(MountRoot(Head(mounts)).val, acc))

ComponentFilesRest(mounts, r) ==
    IF ~r.ok THEN r ELSE ComponentFiles(Tail(mounts), r.val)

\* Lines 69-77: the wasm layer of a component's module.
ModuleLayer(c) ==
    IF c.source.content.source = None
    THEN Err("component loaded from disk should contain a file source")
    ELSE IF ~ParseFileUrl(c.source.content.source[1]).ok
    THEN ParseFileUrl(c.source.content.source[1])
    ELSE WasmLayer(ParseFileUrl(c.source.content.source[1]).val)

\* Lines 82-85, 121-122: the rewritten component is appended.
BundleFiles(acc, layer, fs) ==
    IF ~fs.ok THEN fs
    ELSE Ok([layers |-> fs.val.layers,
             components |-> Append(acc.components,
                [source |-> [content |-> LayerRef(layer)],
                 files |-> fs.val.files])])

\* Lines 78-122: one component, its module layer known.
BundleComponent(c, acc, layer) ==
    BundleFiles(acc, layer,
        ComponentFiles(c.files,
            [layers |-> PushLayer(acc.layers, layer), files |-> <<>>]))

\* The loop over the components (lines 67-123). acc = [layers, components].
RECURSIVE BundleComponents(_, _)
RECURSIVE BundleRest(_, _)
BundleComponents(comps, acc) ==
    IF comps = <<>> THEN Ok(acc)
    ELSE IF ~ModuleLayer(Head(comps)).ok THEN ModuleLayer(Head(comps))
    ELSE BundleRest(comps,
            BundleComponent(Head(comps), acc, ModuleLayer(Head(comps)).val))

BundleRest(comps, r) ==
    IF ~r.ok THEN r ELSE BundleComponents(Tail(comps), r.val)

\* RemoveOrigin leaving the metadata as it is.
RemoveOriginKept(metadata) == metadata

\* locked.metadata.remove("origin")
RemoveOrigin(metadata) == [k \in (DOMAIN metadata) \ {"origin"} |-> metadata[k]]

\* Lines 124-125: the components are replaced, the origin key removed.
Rewritten(locked, r) ==
    IF ~r.ok THEN r
    ELSE Ok([layers |-> r.val.layers,
             locked |-> [components |-> r.val.components,
                         metadata |-> RemoveOrigin(locked.metadata)]])

\* Lines 64-125: the layer list and the rewritten locked application.
Bundle(locked) ==
    Rewritten(locked,
        BundleComponents(locked.components, [layers |-> <<>>, components |-> <<>>]))

\* Config { data: serde_json::to_vec(&locked), media_type, annotations: None }
OciConfig(locked) ==
    [data |-> ToJson(locked), media_type |-> SPIN_APPLICATION_MEDIA_TYPE]

\* OciImageManifest::build(&layers, &config, None): one descriptor per layer.
ManifestBuild(layers, config) ==
    [config |-> [media_type |-> config.media_type, digest |-> Sha256(config.data)],
     layers |-> [i \in 1..Len(layers) |->
                    [media_type |-> layers[i].media_type,
                     digest |-> Sha256Digest(layers[i])]]]

(* ------------------------------ the cache ------------------------------ *)

\* f with key k set to v.
Put(f, k, v) == [x \in (DOMAIN f) \cup {k} |-> IF x = k THEN v ELSE f[x]]

EmptyMap == [k \in {} |-> ""]

\* Cache::new over an empty directory.
EmptyCache ==
    [wasm |-> EmptyMap, data |-> EmptyMap, manifests |-> EmptyMap,
     lockfiles |-> EmptyMap]

\* Cache::wasm_file(digest): Ok when a module with that digest is stored.
WasmFile(c, digest) ==
    IF digest \in DOMAIN c.wasm THEN Ok(digest) ELSE Err("cannot find wasm file")

\* Cache::data_file(digest): Ok when a data blob with that digest is stored.
DataFile(c, digest) ==
    IF digest \in DOMAIN c.data THEN Ok(digest) ELSE Err("cannot find data file")

\* Cache::write_wasm(bytes, digest)
WriteWasm(c, bytes, digest) == [c EXCEPT !.wasm = Put(@, digest, bytes)]

\* Cache::write_data(bytes, digest)
WriteData(c, bytes, digest) == [c EXCEPT !.data = Put(@, digest, bytes)]

(* --------------------------- Client::pull ------------------------------ *)

\* LayerCached looking in the wasm store alone.
LayerCachedWasmOnly(c, layer) == WasmFile(c, layer.digest).ok

\* Lines 175-176: the layer is skipped when its digest is in either store.
LayerCached(c, layer) ==
    WasmFile(c, layer.digest).ok \/ DataFile(c, layer.digest).ok

\* StoreFor sending only the data media type to the data store.
StoreForKnownData(media_type) ==
    IF media_type = DATA_MEDIATYPE THEN "data" ELSE "wasm"

\* Lines 187-190: the sub-store a fetched layer is written to.
StoreFor(media_type) ==
    IF media_type = WASM_LAYER_MEDIA_TYPE THEN "wasm" ELSE "data"

\* StoreLayer writing wasm modules and nothing else.
StoreLayerWasmOnly(c, layer, bytes) ==
    IF StoreFor(layer.media_type) = "wasm"
    THEN WriteWasm(c, bytes, layer.digest)
    ELSE c

\* StoreLayer whose write over a file that exists leaves it truncated.
StoreLayerTruncating(c, layer, bytes) ==
    IF StoreFor(layer.media_type) = "wasm"
    THEN WriteWasm(c, IF WasmFile(c, layer.digest).ok THEN "" ELSE bytes, layer.digest)
    ELSE WriteData(c, IF DataFile(c, layer.digest).ok THEN "" ELSE bytes, layer.digest)

\* Lines 187-190: the write of a fetched layer.
StoreLayer(c, layer, bytes) ==
    IF StoreFor(layer.media_type) = "wasm"
    THEN WriteWasm(c, bytes, layer.digest)
    ELSE WriteData(c, bytes, layer.digest)

(* ------------------------------- state --------------------------------- *)

VARIABLES
    authFile,   \* the credential file at AuthConfig::default_path
    helper,     \* the OS credential helper: server -> outcome
    registry,   \* the remote registry: images by reference, blobs by digest
    cache,      \* the local cache: wasm, data, manifests, lockfiles
    log,        \* registry calls and local writes, in the order they happen
    push,       \* the push call: its arguments, position and result
    pull,       \* the pull calls, one per caller
    login,      \* the login calls, one per caller
    resolved    \* the answer of Client::auth for the reference under test

vars == << authFile, helper, registry, cache, log, push, pull, login, resolved >>

\* ok is the answer of the registry to a call; a local write that is logged
\* has succeeded.
Event(op, proc, idx, digest, ok) ==
    [op |-> op, proc |-> proc, idx |-> idx, digest |-> digest, ok |-> ok]

NoDigest == << "sha256", "" >>

EmptyManifest ==
    [config |-> [media_type |-> SPIN_APPLICATION_MEDIA_TYPE, digest |-> NoDigest],
     layers |-> <<>>]

Running == [ok |-> FALSE, val |-> <<>>, err |-> "running"]

EmptyLocked == [components |-> <<>>, metadata |-> EmptyMap]

(* ------------------------- pull, step by step -------------------------- *)

\* A pull call before its first step. cache0 records the cache as it was
\* before any pull ran.
PullCall(refstr) ==
    [pc |-> "start", refstr |-> refstr, key |-> <<>>, auth |-> Anonymous,
     manifest |-> EmptyManifest, cfg |-> ToJson(EmptyLocked), idx |-> 0,
     bytes |-> "", reached |-> <<>>, cache0 |-> EmptyCache, result |-> Running]

PullFail(p, e) == [pull EXCEPT ![p].pc = "done", ![p].result = Err(e)]

\* Started leaving the parse error to the registry: the text is sent as it is.
StartedUnparsed(p) ==
    IF ~ParseReference(pull[p].refstr).ok
    THEN [pull EXCEPT ![p].pc = "manifest", ![p].key = pull[p].refstr]
    ELSE [pull EXCEPT ![p].pc = "manifest",
                      ![p].key = RefToString(ParseReference(pull[p].refstr).val),
                      ![p].auth = Auth(authFile, helper,
                                       ParseReference(pull[p].refstr).val).val]

\* Lines 147-148: parse the reference, resolve the credentials; a reference
\* that does not parse ends the pull.
Started(p) ==
    IF ~ParseReference(pull[p].refstr).ok
    THEN PullFail(p, "cannot parse reference")
    ELSE [pull EXCEPT ![p].pc = "manifest",
                      ![p].key = RefToString(ParseReference(pull[p].refstr).val),
                      ![p].auth = Auth(authFile, helper,
                                       ParseReference(pull[p].refstr).val).val]

PullStart(p) ==
    /\ pull[p].pc = "start"
    /\ pull' = Started(p)
    /\ UNCHANGED << authFile, helper, registry, cache, log, push, login, resolved >>

\* Line 151: pull_image_manifest.
PullManifest(p) ==
    /\ pull[p].pc = "manifest"
    /\ \/ /\ pull[p].key \in DOMAIN registry.images
          /\ log' = Append(log, Event("pull_manifest", p, 0, NoDigest, TRUE))
          /\ pull' = [pull EXCEPT ![p].pc = "write_manifest",
                                  ![p].manifest = registry.images[pull[p].key]]
       \/ /\ log' = Append(log, Event("pull_manifest", p, 0, NoDigest, FALSE))
          /\ pull' = PullFail(p, "cannot pull manifest")
    /\ UNCHANGED << authFile, helper, registry, cache, push, login, resolved >>

\* Lines 153-158: the manifest document is written at oci_manifest_path.
PullWriteManifest(p) ==
    /\ pull[p].pc = "write_manifest"
    /\ \/ /\ cache' = [cache EXCEPT !.manifests =
                        Put(@, pull[p].key, ToJson(pull[p].manifest))]
          /\ log' = Append(log, Event("write_manifest", p, 0, NoDigest, TRUE))
          /\ pull' = [pull EXCEPT ![p].pc = "config"]
       \/ /\ pull' = PullFail(p, "cannot write manifest")
          /\ UNCHANGED << cache, log >>
    /\ UNCHANGED << authFile, helper, registry, push, login, resolved >>

\* Lines 160-164: pull_blob of the config, then from_utf8.
PullConfig(p) ==
    /\ pull[p].pc = "config"
    /\ \/ /\ pull[p].manifest.config.digest \in DOMAIN registry.configs
          /\ log' = Append(log, Event("pull_blob", p, 0,
                                      pull[p].manifest.config.digest, TRUE))
          /\ LET data == registry.configs[pull[p].manifest.config.digest] IN
             IF data.utf8
             THEN pull' = [pull EXCEPT ![p].pc = "write_config", ![p].cfg = data]
             ELSE pull' = PullFail(p, "invalid utf-8")
       \/ /\ log' = Append(log, Event("pull_blob", p, 0,
                                      pull[p].manifest.config.digest, FALSE))
          /\ pull' = PullFail(p, "cannot pull config")
    /\ UNCHANGED << authFile, helper, registry, cache, push, login, resolved >>

\* PullWriteConfig going on to the layers without writing the config.
PullWriteConfigSkipped(p) ==
    /\ pull[p].pc = "write_config"
    /\ pull' = [pull EXCEPT ![p].pc = "layers", ![p].idx = 1]
    /\ UNCHANGED << authFile, helper, registry, cache, log, push, login, resolved >>

\* Lines 168-169: the config document is written at lockfile_path.
PullWriteConfig(p) ==
    /\ pull[p].pc = "write_config"
    /\ \/ /\ cache' = [cache EXCEPT !.lockfiles = Put(@, pull[p].key, pull[p].cfg)]
          /\ log' = Append(log, Event("write_config", p, 0,
                                      pull[p].manifest.config.digest, TRUE))
          /\ pull' = [pull EXCEPT ![p].pc = "layers", ![p].idx = 1]
       \/ /\ pull' = PullFail(p, "cannot write config")
          /\ UNCHANGED << cache, log >>
    /\ UNCHANGED << authFile, helper, registry, push, login, resolved >>

\* Lines 173-181: the next layer is reached; it is skipped when cached.
\* reached records whether its digest was in the cache at that moment.
PullLayerCheck(p) ==
    /\ pull[p].pc = "layers"
    /\ pull[p].idx <= Len(pull[p].manifest.layers)
    /\ LET layer == pull[p].manifest.layers[pull[p].idx]
           present == layer.digest \in (DOMAIN cache.wasm) \cup (DOMAIN cache.data)
       IN
       IF LayerCached(cache, layer)
       THEN pull' = [pull EXCEPT ![p].idx = @ + 1,
                                 ![p].reached = Append(@, present)]
       ELSE pull' = [pull EXCEPT ![p].pc = "fetch",
                                 ![p].reached = Append(@, present)]
    /\ UNCHANGED << authFile, helper, registry, cache, log, push, login, resolved >>

\* Fetched going on to the write with whatever bytes arrived.
FetchedAnyway(p, answer) ==
    [pull EXCEPT ![p].pc = "write",
                 ![p].bytes = IF answer.ok THEN answer.val ELSE ""]

\* Lines 182-185: what pull does with the registry's answer to pull_blob of
\* layer idx: the bytes are kept for the write, an error ends the pull.
Fetched(p, answer) ==
    IF answer.ok
    THEN [pull EXCEPT ![p].pc = "write", ![p].bytes = answer.val]
    ELSE PullFail(p, "cannot pull blob")

\* The answers the registry can give to pull_blob of a digest.
BlobAnswers(digest) ==
    { Err("transport error") }
    \cup (IF digest \in DOMAIN registry.blobs
          THEN { Ok(registry.blobs[digest]) } ELSE {})

\* Lines 182-185: pull_blob of the layer.
PullLayerFetch(p) ==
    /\ pull[p].pc = "fetch"
    /\ \E answer \in BlobAnswers(pull[p].manifest.layers[pull[p].idx].digest) :
         /\ log' = Append(log, Event("pull_blob", p, pull[p].idx,
                        pull[p].manifest.layers[pull[p].idx].digest, answer.ok))
         /\ pull' = Fetched(p, answer)
    /\ UNCHANGED << authFile, helper, registry, cache, push, login, resolved >>

\* Lines 187-190: the fetched bytes are written to the wasm or the data store.
PullLayerWrite(p) ==
    /\ pull[p].pc = "write"
    /\ LET layer == pull[p].manifest.layers[pull[p].idx] IN
       \/ /\ cache' = StoreLayer(cache, layer, pull[p].bytes)
          /\ log' = Append(log, Event("write_layer", p, pull[p].idx, layer.digest, TRUE))
          /\ pull' = [pull EXCEPT ![p].pc = "layers", ![p].idx = @ + 1]
       \/ /\ pull' = PullFail(p, "cannot write layer")
          /\ UNCHANGED << cache, log >>
    /\ UNCHANGED << authFile, helper, registry, push, login, resolved >>

\* Lines 193-195: every layer was handled.
PullFinish(p) ==
    /\ pull[p].pc = "layers"
    /\ pull[p].idx > Len(pull[p].manifest.layers)
    /\ pull' = [pull EXCEPT ![p].pc = "done", ![p].result = Ok(<<>>)]
    /\ UNCHANGED << authFile, helper, registry, cache, log, push, login, resolved >>

PullStep ==
    \/ \E p \in DOMAIN pull : PullStart(p)
    \/ \E p \in DOMAIN pull : PullManifest(p)
    \/ \E p \in DOMAIN pull : PullWriteManifest(p)
    \/ \E p \in DOMAIN pull : PullConfig(p)
    \/ \E p \in DOMAIN pull : PullWriteConfig(p)
    \/ \E p \in DOMAIN pull : PullLayerCheck(p)
    \/ \E p \in DOMAIN pull : PullLayerFetch(p)
    \/ \E p \in DOMAIN pull : PullLayerWrite(p)
    \/ \E p \in DOMAIN pull : PullFinish(p)

(* ------------------------------- push ---------------------------------- *)

\* A push call before it runs.
PushCall(refstr, locked) ==
    [pc |-> "start", refstr |-> refstr, locked |-> locked, auth |-> Anonymous,
     layers |-> <<>>, config |-> ToJson(EmptyLocked), manifest |-> EmptyManifest,
     result |-> Running]

NoPush == [PushCall(<<>>, EmptyLocked) EXCEPT !.pc = "off"]

PushFail(e) == [push EXCEPT !.pc = "done", !.result = Err(e)]

\* The registry after oci.push stored the layers, the config and the manifest.
RECURSIVE PutLayers(_, _)
PutLayers(blobs, layers) ==
    IF layers = <<>> THEN blobs
    ELSE PutLayers(Put(blobs, Sha256Digest(Head(layers)), Head(layers).data),
                   Tail(layers))

Uploaded(reg, key, layers, config, manifest) ==
    [images |-> Put(reg.images, key, manifest),
     configs |-> Put(reg.configs, manifest.config.digest, config.data),
     blobs |-> PutLayers(reg.blobs, layers)]

\* Lines 48-51: the reference does not parse.
PushParseError ==
    /\ push.pc = "start"
    /\ ~ParseReference(push.refstr).ok
    /\ push' = PushFail("cannot parse reference")
    /\ UNCHANGED << authFile, helper, registry, cache, log, pull, login, resolved >>

\* Lines 58-59: build_locked_app fails.
PushLockedError ==
    /\ push.pc = "start"
    /\ ParseReference(push.refstr).ok
    /\ push' = PushFail("cannot create locked app")
    /\ UNCHANGED << authFile, helper, registry, cache, log, pull, login, resolved >>

\* Lines 64-123: a component or a mount cannot be turned into layers.
PushBundleError ==
    /\ push.pc = "start"
    /\ ParseReference(push.refstr).ok
    /\ ~Bundle(push.locked).ok
    /\ push' = PushFail(Bundle(push.locked).err)
    /\ UNCHANGED << authFile, helper, registry, cache, log, pull, login, resolved >>

\* Lines 127-138: the config and the manifest are built and uploaded; the
\* registry stores them or rejects the upload.
Upload(ref, auth, layers, config, manifest) ==
    /\ \/ /\ registry' = Uploaded(registry, RefToString(ref), layers, config, manifest)
          /\ push' = [push EXCEPT !.auth = auth, !.layers = layers,
                                  !.config = config.data, !.manifest = manifest,
                                  !.pc = "done", !.result = Ok(<<>>)]
          /\ log' = Append(log, Event("push", "push", Len(layers),
                                      manifest.config.digest, TRUE))
       \/ /\ log' = Append(log, Event("push", "push", Len(layers),
                                      manifest.config.digest, FALSE))
          /\ push' = [push EXCEPT !.auth = auth, !.layers = layers,
                                  !.config = config.data, !.manifest = manifest,
                                  !.pc = "done",
                                  !.result = Err("cannot push Spin application")]
          /\ UNCHANGED registry

\* Lines 127-132: Config and OciImageManifest::build for the bundle b.
UploadBundle(ref, auth, b, config) ==
    Upload(ref, auth, b.layers, config, ManifestBuild(b.layers, config))

\* Lines 48-142: the whole push, up to the registry's answer to the upload.
PushUpload ==
    /\ push.pc = "start"
    /\ ParseReference(push.refstr).ok
    /\ Bundle(push.locked).ok
    /\ UploadBundle(ParseReference(push.refstr).val,
                    Auth(authFile, helper, ParseReference(push.refstr).val).val,
                    Bundle(push.locked).val,
                    OciConfig(Bundle(push.locked).val.locked))
    /\ UNCHANGED << authFile, helper, cache, pull, login, resolved >>

PushStep ==
    \/ PushParseError
    \/ PushLockedError
    \/ PushBundleError
    \/ PushUpload

(* ------------------------------- login --------------------------------- *)

\* Lines 225-229: server.parse::<Url>(): a text with a scheme and "//" is a
\* URL whose host_str drops the scheme and the port; "host:port" parses as a
\* URL without a host and a bare host does not parse: both are kept whole.
NormalizeServer(server) ==
    IF Len(server) >= 2 /\ server[1] = "https://" THEN << server[2] >>
    ELSE server

\* A login call before its first step.
LoginCall(server, username, password) ==
    [pc |-> "start", arg |-> server, username |-> username, password |-> password,
     server |-> <<>>, auths |-> EmptyAuths, before |-> FileMissing,
     result |-> Running]

LoginFail(p, e) == [login EXCEPT ![p].pc = "done", ![p].result = Err(e)]

\* Validated going on to load and save whatever the registry answered.
ValidatedAnyway(p, accepted) ==
    [login EXCEPT ![p].pc = "load",
                  ![p].server = NormalizeServer(login[p].arg),
                  ![p].before = authFile]

\* Lines 234, 256-269: what login does with the registry's answer to
\* authenticate: a rejection ends the login.
Validated(p, accepted) ==
    IF accepted
    THEN [login EXCEPT ![p].pc = "load",
                       ![p].server = NormalizeServer(login[p].arg),
                       ![p].before = authFile]
    ELSE [LoginFail(p, "cannot authenticate") EXCEPT
                       ![p].server = NormalizeServer(login[p].arg),
                       ![p].before = authFile]

\* Lines 225-234, 243-270: normalize the server, authenticate against it.
\* before records the credential file at the start of the call.
LoginValidate(p) ==
    /\ login[p].pc = "start"
    /\ \E accepted \in BOOLEAN :
         /\ log' = Append(log, Event("authenticate", p, 0, NoDigest, accepted))
         /\ login' = Validated(p, accepted)
    /\ UNCHANGED << authFile, helper, registry, cache, push, pull, resolved >>

\* Line 237: AuthConfig::load_default.
LoginLoad(p) ==
    /\ login[p].pc = "load"
    /\ IF LoadDefault(authFile).ok
       THEN login' = [login EXCEPT ![p].pc = "save",
                                   ![p].auths = LoadDefault(authFile).val]
       ELSE login' = LoginFail(p, LoadDefault(authFile).err)
    /\ UNCHANGED << authFile, helper, registry, cache, log, push, pull, resolved >>

\* Lines 238-239: insert, then save_default.
LoginSave(p) ==
    /\ login[p].pc = "save"
    /\ LET auths == Insert(login[p].auths, login[p].server, login[p].username,
                           login[p].password) IN
       \/ /\ authFile' = FileOf(auths)
          /\ log' = Append(log, Event("save_auths", p, 0, NoDigest, TRUE))
          /\ login' = [login EXCEPT ![p].pc = "done", ![p].auths = auths,
                                    ![p].result = Ok(<<>>)]
       \/ /\ login' = [LoginFail(p, "cannot save authentication file") EXCEPT
                                    ![p].auths = auths]
          /\ UNCHANGED << authFile, log >>
    /\ UNCHANGED << helper, registry, cache, push, pull, resolved >>

LoginStep ==
    \/ \E p \in DOMAIN login : LoginValidate(p)
    \/ \E p \in DOMAIN login : LoginLoad(p)
    \/ \E p \in DOMAIN login : LoginSave(p)

(* ------------------------- credential resolution ----------------------- *)

\* A resolution of the credentials of one reference, before it runs.
ResolveCall(refstr) == [pc |-> "start", refstr |-> refstr, result |-> Running]

NoResolve == [ResolveCall(<<>>) EXCEPT !.pc = "off"]

\* Client::auth for the reference under test.
Resolve ==
    /\ resolved.pc = "start"
    /\ ParseReference(resolved.refstr).ok
    /\ resolved' = [resolved EXCEPT !.pc = "done",
                        !.result = Auth(authFile, helper,
                                        ParseReference(resolved.refstr).val)]
    /\ UNCHANGED << authFile, helper, registry, cache, log, push, pull, login >>

(* ------------------------------ inputs --------------------------------- *)

GhcrRef == << "ghcr.io", "/", "app", ":", "v1" >>

LocalRef == << "localhost", ":", "5000", "/", "app" >>

HubRef == << "app" >>

\* Malformed references: the empty string, an upper-case repository.
BadRefs == { <<>>, << "ghcr.io", "/", "App" >> }

GoodRefs == { GhcrRef, LocalRef, HubRef }

KeyOf(refstr) == RefToString(ParseReference(refstr).val)

\* Usernames and passwords: texts over 'a' and ':'.
CredStrings == SeqsUpTo({97, Colon}, MaxCredLen)

\* Table values no insert wrote: an empty text, a text of a wrong length,
\* misplaced padding, bytes that are not UTF-8, a text without ':'.
BadEntries ==
    { <<>>, << 26 >>, << 26, PadSym, 26, 16 >>,
      Base64Encode(<< 255, Colon, 97 >>), Base64Encode(<< 97, 97 >>) }

StoredEntries ==
    { Base64Encode(u \o << Colon >> \o p) : u \in CredStrings, p \in CredStrings }

OtherHost == << "quay.io" >>

\* Tables with at most an entry for server and an entry for another host.
TablesFor(server, entries) ==
    { [k \in ks |-> IF k = server THEN e ELSE Base64Encode(<< 98, Colon, 98 >>)] :
        ks \in SUBSET {server, OtherHost}, e \in entries }

HelperOutcomes ==
    { HelperNone, HelperToken }
    \cup { HelperUserPass(u, p) : u \in CredStrings, p \in CredStrings }

NoHelper == [k \in {} |-> HelperNone]

\* The credential file the push and pull specifications start with.
GhcrCredentials ==
    FileOf([k \in { << "ghcr.io" >> } |-> Base64Encode(<< 97, Colon, 97 >>)])

EmptyRegistry == [images |-> EmptyMap, configs |-> EmptyMap, blobs |-> EmptyMap]

\* A content-addressed store holding the blobs of cs.
BlobsOf(cs) == [d \in { Sha256(c) : c \in cs } |-> d[2]]

(* -------------------- Spec: one pull, any registry --------------------- *)

\* The contents the layers of the registry's manifest are drawn from.
PullContents == {"B1", "B2"}

LayerDescs ==
    [media_type : {WASM_LAYER_MEDIA_TYPE, DATA_MEDIATYPE, OTHER_MEDIATYPE},
     digest : { Sha256(c) : c \in PullContents }]

\* The config blobs of the registry: a JSON text, or bytes that are not UTF-8.
RegistryConfigs == { ToJson(EmptyLocked), [ToJson(EmptyLocked) EXCEPT !.utf8 = FALSE] }

\* Documents an earlier pull of the same reference left behind.
OldDoc == [ToJson(EmptyLocked) EXCEPT !.json.metadata = [k \in {"old"} |-> "1"]]

\* A cache holding the blobs of w in its wasm store and those of d in its
\* data store, with or without the documents of an earlier pull.
CacheWith(w, d, old) ==
    [wasm |-> BlobsOf(w), data |-> BlobsOf(d),
     manifests |-> IF old THEN [k \in { KeyOf(GhcrRef) } |-> OldDoc] ELSE EmptyMap,
     lockfiles |-> IF old THEN [k \in { KeyOf(GhcrRef) } |-> OldDoc] ELSE EmptyMap]

\* The bytes of the config matter only to a pull that reaches the config, and
\* the layers only to one that reads it: the other inputs are fixed there.
PullInputs ==
    { << r, cfg, layers >> :
        r \in { GhcrRef, << "ghcr.io", "/", "App" >> },
        cfg \in RegistryConfigs,
        layers \in SeqsUpTo(LayerDescs, MaxLayers) }

InitPull ==
    /\ authFile = GhcrCredentials
    /\ helper = NoHelper
    /\ \E in \in PullInputs :
         LET m == [config |-> [media_type |-> SPIN_APPLICATION_MEDIA_TYPE,
                               digest |-> Sha256(in[2])],
                   layers |-> in[3]] IN
         /\ (in[1] # GhcrRef \/ ~in[2].utf8) => in[3] = <<>>
         /\ in[1] # GhcrRef => in[2].utf8
         /\ registry = [images |-> [k \in { KeyOf(r) : r \in GoodRefs } |-> m],
                        configs |-> [d \in { Sha256(in[2]) } |-> in[2]],
                        blobs |-> BlobsOf(Contents)]
         /\ \E w \in SUBSET PullContents, d \in SUBSET PullContents, old \in BOOLEAN :
              /\ cache = CacheWith(w, d, old)
              /\ pull = [p \in {"p1"} |->
                            [PullCall(in[1]) EXCEPT !.cache0 = CacheWith(w, d, old)]]
    /\ log = <<>>
    /\ push = NoPush
    /\ login = [p \in {} |-> LoginCall(<<>>, <<>>, <<>>)]
    /\ resolved = NoResolve

\* One pull of a reference whose manifest, config and initial cache are arbitrary.
Spec == InitPull /\ [][PullStep]_vars

(* ------------- SpecPull2: two pulls of the same reference -------------- *)

\* The layers of the manifest both callers pull: one content under two media
\* types, another content under an unknown media type.
RaceLayerDescs ==
    { [media_type |-> WASM_LAYER_MEDIA_TYPE, digest |-> Sha256("B1")],
      [media_type |-> DATA_MEDIATYPE, digest |-> Sha256("B1")],
      [media_type |-> OTHER_MEDIATYPE, digest |-> Sha256("B2")] }

InitPull2 ==
    /\ authFile = GhcrCredentials
    /\ helper = NoHelper
    /\ \E layers \in SeqsUpTo(RaceLayerDescs, MaxRaceLayers) :
         registry = [images |-> [k \in { KeyOf(GhcrRef) } |->
                        [config |-> [media_type |-> SPIN_APPLICATION_MEDIA_TYPE,
                                     digest |-> Sha256(ToJson(EmptyLocked))],
                         layers |-> layers]],
                     configs |-> [d \in { Sha256(ToJson(EmptyLocked)) } |->
                                    ToJson(EmptyLocked)],
                     blobs |-> BlobsOf(Contents)]
    /\ \E w \in {{}}, d \in SUBSET {"B1"} :
         /\ cache = CacheWith(w, d, FALSE)
         /\ pull = [p \in {"p1", "p2"} |->
                       [PullCall(GhcrRef) EXCEPT !.cache0 = CacheWith(w, d, FALSE)]]
    /\ log = <<>>
    /\ push = NoPush
    /\ login = [p \in {} |-> LoginCall(<<>>, <<>>, <<>>)]
    /\ resolved = NoResolve

\* Two callers pull the same reference into the same cache, their steps
\* interleaved in every way.
SpecPull2 == InitPull2 /\ [][PullStep]_vars

(* ----------------------- SpecPush: one push ---------------------------- *)

NoPulls == [p \in {} |-> PullCall(<<>>)]

NoLogins == [p \in {} |-> LoginCall(<<>>, <<>>, <<>>)]

\* A module source of a locked component: absent, a file, a file that is gone.
ModuleSources ==
    { None, Some(FileUrl(<< "app", "a.wasm" >>)), Some(FileUrl(<< "app", "b.wasm" >>)),
      Some(FileUrl(<< "app", "gone.wasm" >>)) }

Mount(source) == ContentPath(ContentRef(source, None), << "/" >>)

AssetsMount == Mount(Some(FileUrl(<< "app", "assets" >>)))

StaticMount == Mount(Some(FileUrl(<< "app", "static" >>)))

EmptyMount == Mount(Some(FileUrl(<< "app", "empty" >>)))

\* The file mounts of a locked component.
MountLists ==
    { <<>>, << AssetsMount >>, << EmptyMount >>, << StaticMount, AssetsMount >>,
      << Mount(None) >>, << Mount(Some(FileUrl(<< "app", "gone" >>))) >> }

LockedComponents ==
    { [source |-> [content |-> ContentRef(src, None)], files |-> fl] :
        src \in ModuleSources, fl \in MountLists }

Metadatas ==
    { [k \in ks |-> "v"] : ks \in SUBSET {"origin", "name"} }

LockedApps ==
    [components : SeqsUpTo(LockedComponents, MaxComponents), metadata : Metadatas]

BadRef == << "ghcr.io", "/", "App" >>

\* The application does not matter to a push whose reference does not parse.
PushInputs ==
    { PushCall(GhcrRef, app) : app \in LockedApps }
    \cup { PushCall(r, EmptyLocked) : r \in BadRefs }

InitPush ==
    /\ authFile = GhcrCredentials
    /\ helper = NoHelper
    /\ registry = EmptyRegistry
    /\ cache = EmptyCache
    /\ log = <<>>
    /\ push \in PushInputs
    /\ pull = NoPulls
    /\ login = NoLogins
    /\ resolved = NoResolve

SpecPush == InitPush /\ [][PushStep]_vars

(* ------------------ SpecPushPull: a push and a pull -------------------- *)

\* Components whose sources all exist.
SoundComponents ==
    { c \in LockedComponents :
        /\ c.source.content.source \in
              { Some(FileUrl(<< "app", "a.wasm" >>)), Some(FileUrl(<< "app", "b.wasm" >>)) }
        /\ c.files \in { <<>>, << AssetsMount >>, << EmptyMount >>,
                         << StaticMount, AssetsMount >> } }

RoundTripApps ==
    [components : SeqsUpTo(SoundComponents, MaxComponents),
     metadata : { [k \in {"origin", "name"} |-> "v"] }]

\* An application whose only component has no module source.
SourcelessApp ==
    [components |-> << [source |-> [content |-> ContentRef(None, None)],
                        files |-> <<>>] >>,
     metadata |-> [k \in {"origin", "name"} |-> "v"]]

InitPushPull ==
    /\ authFile = GhcrCredentials
    /\ helper = NoHelper
    /\ registry = EmptyRegistry
    /\ cache = EmptyCache
    /\ log = <<>>
    /\ push \in { PushCall(GhcrRef, app) : app \in RoundTripApps }
                \cup { PushCall(BadRef, EmptyLocked), PushCall(GhcrRef, SourcelessApp) }
    /\ pull \in { [p \in {"p1"} |-> PullCall(r)] : r \in { GhcrRef, LocalRef, BadRef } }
    /\ login = NoLogins
    /\ resolved = NoResolve

SpecPushPull == InitPushPull /\ [][PushStep \/ PullStep]_vars

(* ------------------- SpecAuth: credential resolution ------------------- *)

AuthFilesFor(server) ==
    { FileMissing, FileCorrupt, FileNoDir }
    \cup { FileOf(t) : t \in TablesFor(server, StoredEntries \cup BadEntries) }

InitAuth ==
    /\ \E r \in GoodRefs :
         LET server == AuthServer(ParseReference(r).val) IN
         /\ resolved = ResolveCall(r)
         /\ authFile \in AuthFilesFor(server)
         /\ helper \in { [k \in ks |-> o] : ks \in SUBSET {server}, o \in HelperOutcomes }
    /\ registry = EmptyRegistry
    /\ cache = EmptyCache
    /\ log = <<>>
    /\ push = NoPush
    /\ pull = NoPulls
    /\ login = NoLogins

SpecAuth == InitAuth /\ [][Resolve]_vars

(* ------------------------ SpecLogin: two logins ------------------------ *)

ServerArgs ==
    { << "ghcr.io" >>, << "https://", "ghcr.io" >>, << "localhost", ":", "5000" >>,
      << "https://", "localhost", ":", "5000" >> }

LoginFiles ==
    { FileMissing, FileCorrupt, FileNoDir, FileOf(EmptyAuths),
      FileOf([k \in { OtherHost } |-> Base64Encode(<< 98, Colon, 98 >>)]),
      FileOf([k \in { << "ghcr.io" >> } |-> Base64Encode(<< 98, Colon, 98 >>)]) }

InitLogin ==
    /\ authFile \in LoginFiles
    /\ helper = NoHelper
    /\ registry = EmptyRegistry
    /\ cache = EmptyCache
    /\ log = <<>>
    /\ push = NoPush
    /\ pull = NoPulls
    /\ \E s1 \in ServerArgs, u \in CredStrings, pw \in CredStrings,
          s2 \in { << "ghcr.io" >>, << "localhost", ":", "5000" >> } :
         login = [p \in {"l1", "l2"} |->
                    IF p = "l1" THEN LoginCall(s1, u, pw)
                    ELSE LoginCall(s2, << 98 >>, << 98 >>)]
    /\ resolved = NoResolve

SpecLogin == InitLogin /\ [][LoginStep]_vars

(* ------------ SpecLoginAuth: a login, then a resolution --------------- *)

\* Client::auth called by a push or a pull that starts after every login
\* has returned.
ResolveAfterLogin ==
    /\ \A p \in DOMAIN login : login[p].pc = "done"
    /\ Resolve

\* A username and password the OS helper holds.
HelperPair == HelperUserPass(<< 104 >>, << 104 >>)

InitLoginAuth ==
    /\ authFile \in { FileMissing, FileOf(EmptyAuths) }
    /\ \E r \in GoodRefs :
         /\ resolved = ResolveCall(r)
         /\ helper \in { [k \in ks |-> HelperPair] :
                            ks \in SUBSET { AuthServer(ParseReference(r).val) } }
    /\ registry = EmptyRegistry
    /\ cache = EmptyCache
    /\ log = <<>>
    /\ push = NoPush
    /\ pull = NoPulls
    /\ \E s \in ServerArgs \cup { << "docker.io" >> },
          u \in CredStrings, pw \in CredStrings :
         login = [p \in {"l1"} |-> LoginCall(s, u, pw)]

SpecLoginAuth == InitLoginAuth /\ [][LoginStep \/ ResolveAfterLogin]_vars

(* ------------------------------- claims -------------------------------- *)

\* The events of the log that satisfy a condition are named by their index.
LogIdx == 1..Len(log)

InCache(d) == d \in (DOMAIN cache.wasm) \cup (DOMAIN cache.data)

LayerOps == {"pull_blob", "write_layer"}

\* C1: a layer whose digest is in the wasm or the data store when pull reaches
\* it causes no pull_blob call and no cache write for that digest, then or
\* later in the pull, whatever the manifest and the initial cache.
C1_NoFetchOfCachedLayer ==
    \A p \in DOMAIN pull :
        \A i \in 1..Len(pull[p].reached) :
            pull[p].reached[i] =>
                \A k \in LogIdx :
                    ~ /\ log[k].proc = p
                      /\ log[k].op \in LayerOps
                      /\ log[k].idx >= i
                      /\ log[k].digest = pull[p].manifest.layers[i].digest

\* A finished pull that skipped a wasm layer found in the data store only and
\* fetched another layer.
C1_Witness ==
    \E p \in DOMAIN pull :
        /\ pull[p].pc = "done" /\ pull[p].result.ok
        /\ \E i, j \in 1..Len(pull[p].reached) :
            /\ pull[p].reached[i] /\ ~pull[p].reached[j]
            /\ pull[p].manifest.layers[i].media_type = WASM_LAYER_MEDIA_TYPE
            /\ pull[p].manifest.layers[i].digest \notin DOMAIN cache.wasm
            /\ pull[p].manifest.layers[i].digest \in DOMAIN cache.data

\* The push reached manifest construction and upload.
PushBuilt == push.pc = "done" /\ push.result.err \in {"none", "cannot push Spin application"}

LayerDigests(layers) == { Sha256(layers[i].data) : i \in 1..Len(layers) }

\* C2: the layer list handed to manifest construction and upload holds no
\* digest twice.
C2_OneLayerPerDigest ==
    PushBuilt =>
        \A i, j \in 1..Len(push.layers) :
            i # j => Sha256(push.layers[i].data) # Sha256(push.layers[j].data)

\* The module path a component of the application handed to push names.
ModulePath(c) == c.source.content.source[1][2]

\* The mount directories a component of the application handed to push names.
MountRoots(c) == { c.files[m].content.source[1][2] : m \in 1..Len(c.files) }

\* C3: in the config that push serializes every module reference and every
\* file entry has no source and carries the sha-256 digest of the bytes read
\* for it: the module file, the file at the entry's path under a mount.
C3_OnlyDigestsRemain ==
    PushBuilt =>
        LET out == push.config.json.components
            inp == push.locked.components IN
        /\ push.config.utf8
        /\ Len(out) = Len(inp)
        /\ \A i \in 1..Len(out) :
            /\ out[i].source.content.source = None
            /\ out[i].source.content.digest = Some(Sha256(FsBytes(ModulePath(inp[i]))))
            /\ \A j \in 1..Len(out[i].files) :
                /\ out[i].files[j].content.source = None
                /\ \E root \in MountRoots(inp[i]) :
                    /\ FsKind(root \o out[i].files[j].path) = "file"
                    /\ out[i].files[j].content.digest =
                          Some(Sha256(FsBytes(root \o out[i].files[j].path)))

\* A successful push of two components, one of them with three files or more.
C3_Witness ==
    /\ push.pc = "done" /\ push.result.ok
    /\ Len(push.config.json.components) = 2
    /\ \E i \in 1..2 : Len(push.config.json.components[i].files) >= 3

\* The server the resolution under test looks up.
ResolvedServer == AuthServer(ParseReference(resolved.refstr).val)

\* The credential file holds an entry for the server.
HasEntry == authFile.state = "ok" /\ ResolvedServer \in DOMAIN authFile.auths

\* The entry is the encoding of a username and a password.
HasCredential == HasEntry /\ authFile.auths[ResolvedServer] \in StoredEntries

HelperAnswer ==
    IF ResolvedServer \in DOMAIN helper THEN helper[ResolvedServer] ELSE HelperNone

\* C4: with a credential stored for the host, resolution returns the stored
\* username and password whatever the OS helper holds; with no entry in the
\* table and nothing from the helper, it returns anonymous.
C4_StoredCredentialFirst ==
    resolved.pc = "done" =>
        /\ HasCredential =>
            /\ resolved.result.ok
            /\ resolved.result.val.kind = "Basic"
            /\ Base64Encode(resolved.result.val.username \o << Colon >>
                            \o resolved.result.val.password)
                  = authFile.auths[ResolvedServer]
        /\ (~HasEntry /\ HelperAnswer.kind = "Err") =>
            resolved.result = Ok(Anonymous)

\* A resolution that returned the stored pair while the helper held another.
C4_Witness ==
    /\ resolved.pc = "done"
    /\ HasCredential
    /\ HelperAnswer.kind = "UsernamePassword"
    /\ resolved.result.val # Basic(HelperAnswer.username, HelperAnswer.password)
    /\ resolved.result.val.kind = "Basic"

LoginSaves(p) == { k \in LogIdx : log[k].op = "save_auths" /\ log[k].proc = p }

Rejected(p) ==
    \E k \in LogIdx : log[k].op = "authenticate" /\ log[k].proc = p /\ ~log[k].ok

\* C5: a login whose credentials the registry rejects returns an error and
\* saves nothing: with no other login saving, the credential file is what it
\* was before the call. A login that succeeds has saved a table in which the
\* host of its server argument maps to base64(username ":" password).
C5_LoginSavesOnlyValidated ==
    \A p \in DOMAIN login :
        /\ Rejected(p) =>
            /\ login[p].pc = "done" /\ ~login[p].result.ok
            /\ LoginSaves(p) = {}
            /\ (\A q \in DOMAIN login : LoginSaves(q) = {}) =>
                  authFile = login[p].before
        /\ (login[p].pc = "done" /\ login[p].result.ok) =>
            /\ LoginSaves(p) # {}
            /\ login[p].server \in DOMAIN login[p].auths
            /\ login[p].server[1] # "https://"
            /\ login[p].auths[login[p].server] =
                  Base64Encode(login[p].username \o << Colon >> \o login[p].password)
            /\ (\A q \in DOMAIN login : \A k \in LoginSaves(q) :
                    \E k2 \in LoginSaves(p) : k2 >= k) =>
                  authFile = FileOf(login[p].auths)

\* One login was rejected over a file that held a table, the other succeeded
\* after it with a URL as its server argument.
C5_Witness ==
    \E p, q \in DOMAIN login :
        /\ Rejected(q) /\ login[q].pc = "done"
        /\ login[q].before.state = "ok" /\ login[q].before.auths # EmptyAuths
        /\ login[p].pc = "done" /\ login[p].result.ok
        /\ login[p].arg[1] = "https://"
        /\ authFile = FileOf(login[p].auths)

\* C6: after a successful push and a successful pull of the same reference
\* into an empty cache, the lockfile holds the config pushed, the digests in
\* the wasm and data stores are the digests of the pushed layers, every wasm
\* layer is in the wasm store and every data layer in the data store.
C6_RoundTrip ==
    \A p \in DOMAIN pull :
        (push.pc = "done" /\ push.result.ok /\ pull[p].pc = "done" /\ pull[p].result.ok) =>
            /\ pull[p].key \in DOMAIN cache.lockfiles
            /\ cache.lockfiles[pull[p].key] = push.config
            /\ (DOMAIN cache.wasm) \cup (DOMAIN cache.data) = LayerDigests(push.layers)
            /\ \A i \in 1..Len(push.layers) :
                /\ push.layers[i].media_type = WASM_LAYER_MEDIA_TYPE =>
                      Sha256(push.layers[i].data) \in DOMAIN cache.wasm
                /\ push.layers[i].media_type = DATA_MEDIATYPE =>
                      Sha256(push.layers[i].data) \in DOMAIN cache.data

\* The events of a proc after event k.
Later(p, k) == { j \in LogIdx : j > k /\ log[j].proc = p }

Stored(store) == { << d, store[d] >> : d \in DOMAIN store }

\* C7: a failed pull_blob of a layer ends the pull with an error: the pull
\* does nothing after it and the digest is in neither store. Every write of a
\* layer follows a successful pull_blob of that layer by the same pull, and
\* the bytes stored under a digest are the whole blob of that digest.
C7_FailedFetchAborts ==
    /\ \A k \in LogIdx :
        (log[k].op = "pull_blob" /\ log[k].idx > 0 /\ ~log[k].ok) =>
            /\ pull[log[k].proc].pc = "done"
            /\ ~pull[log[k].proc].result.ok
            /\ Later(log[k].proc, k) = {}
            /\ ~InCache(log[k].digest)
    /\ \A k \in LogIdx :
        log[k].op = "write_layer" =>
            \E j \in 1..(k - 1) :
                /\ log[j].op = "pull_blob" /\ log[j].ok
                /\ log[j].proc = log[k].proc
                /\ log[j].idx = log[k].idx
                /\ log[j].digest = log[k].digest
    /\ \A e \in Stored(cache.wasm) \cup Stored(cache.data) : Sha256(e[2]) = e[1]

\* A pull that wrote its first layer and failed to fetch its second, with a
\* third layer left.
C7_Witness ==
    \E p \in DOMAIN pull :
        /\ pull[p].pc = "done"
        /\ pull[p].idx = 2
        /\ Len(pull[p].manifest.layers) > 2
        /\ \E k \in LogIdx : log[k].op = "write_layer" /\ log[k].idx = 1
        /\ \E k \in LogIdx : log[k].op = "pull_blob" /\ log[k].idx = 2 /\ ~log[k].ok

\* C8: resolution never fails: it returns Basic or Anonymous for every state
\* of the credential file and every answer of the OS helper; when the file
\* gives no credential, a username and password from the helper yield Basic
\* with that pair, an identity token or nothing yields Anonymous.
C8_AuthNeverFails ==
    resolved.pc = "done" =>
        /\ resolved.result.ok
        /\ resolved.result.val.kind \in {"Basic", "Anonymous"}
        /\ ~HasCredential =>
            IF HelperAnswer.kind = "UsernamePassword"
            THEN resolved.result.val = Basic(HelperAnswer.username, HelperAnswer.password)
            ELSE resolved.result.val = Anonymous

\* A resolution over an entry that cannot be decoded, the helper holding an
\* identity token.
C8_Witness ==
    /\ resolved.pc = "done"
    /\ HasEntry /\ authFile.auths[ResolvedServer] \in BadEntries
    /\ HelperAnswer.kind = "IdentityToken"
    /\ resolved.result = Ok(Anonymous)

\* The layers a pull fetched and has gone past.
FetchedLayers(p) ==
    { i \in 1..Len(pull[p].manifest.layers) :
        /\ \E k \in LogIdx : /\ log[k].op = "pull_blob" /\ log[k].proc = p
                             /\ log[k].idx = i /\ log[k].ok
        /\ pull[p].idx > i }

\* C9: every layer pull fetched is in exactly one store, chosen by its media
\* type alone: the wasm store for the wasm media type, the data store for
\* every other media type.
C9_StoreByMediaType ==
    \A p \in DOMAIN pull :
        \A i \in FetchedLayers(p) :
            LET layer == pull[p].manifest.layers[i] IN
            IF layer.media_type = WASM_LAYER_MEDIA_TYPE
            THEN /\ layer.digest \in DOMAIN cache.wasm
                 /\ layer.digest \notin DOMAIN cache.data
            ELSE /\ layer.digest \in DOMAIN cache.data
                 /\ layer.digest \notin DOMAIN cache.wasm

\* A finished pull that fetched a wasm layer and a layer of an unknown type.
C9_Witness ==
    \E p \in DOMAIN pull :
        /\ pull[p].pc = "done" /\ pull[p].result.ok
        /\ \E i, j \in FetchedLayers(p) :
            /\ pull[p].manifest.layers[i].media_type = OTHER_MEDIATYPE
            /\ pull[p].manifest.layers[j].media_type = WASM_LAYER_MEDIA_TYPE

ProcEvents(p) == { k \in LogIdx : log[k].proc = p }

\* C10: a push or a pull of a malformed reference issues no registry call and
\* writes nothing to the cache, and ends with the parse error.
C10_ParseErrorFirst ==
    /\ ~ParseReference(push.refstr).ok =>
        /\ ProcEvents("push") = {}
        /\ registry = EmptyRegistry
        /\ push.pc = "done" => push.result = Err("cannot parse reference")
    /\ \A p \in DOMAIN pull :
        ~ParseReference(pull[p].refstr).ok =>
            /\ ProcEvents(p) = {}
            /\ cache = EmptyCache
            /\ pull[p].pc = "done" => pull[p].result = Err("cannot parse reference")

\* A push and a pull that both ended on a malformed reference.
C10_Witness ==
    /\ push.pc = "done" /\ ~ParseReference(push.refstr).ok
    /\ \E p \in DOMAIN pull : pull[p].pc = "done" /\ ~ParseReference(pull[p].refstr).ok

\* The errors of a component or a file mount without a local source.
MissingSourceErrors ==
    { "component loaded from disk should contain a file source",
      "file mount loaded from disk should contain a file source" }

\* A component of the application lacks a module source, or a mount its source.
LacksSource(locked) ==
    \E i \in 1..Len(locked.components) :
        \/ locked.components[i].source.content.source = None
        \/ \E m \in 1..Len(locked.components[i].files) :
                locked.components[i].files[m].content.source = None

\* Every source the application names exists on disk.
SourcesExist(locked) ==
    \A i \in 1..Len(locked.components) :
        LET c == locked.components[i] IN
        /\ c.source.content.source # None => FsKind(ModulePath(c)) = "file"
        /\ \A m \in 1..Len(c.files) :
              c.files[m].content.source # None =>
                  FsKind(c.files[m].content.source[1][2]) = "dir"

\* C11: a push of an application in which a component lacks a module source
\* or a file mount lacks its source ends in an error and makes no upload call,
\* however many components came before; the error is the missing-source one
\* when the locked application was built and every other source exists.
C11_MissingSourceFails ==
    (push.pc = "done" /\ ParseReference(push.refstr).ok /\ LacksSource(push.locked)) =>
        /\ ~push.result.ok
        /\ ProcEvents("push") = {}
        /\ registry = EmptyRegistry
        /\ push.layers = <<>>
        /\ (SourcesExist(push.locked) /\ push.result.err # "cannot create locked app") =>
              push.result.err \in MissingSourceErrors

\* A push that failed on a mount without a source in its second component,
\* the first component having a module and assets.
C11_Witness ==
    /\ push.pc = "done"
    /\ push.result.err = "file mount loaded from disk should contain a file source"
    /\ Len(push.locked.components) = 2
    /\ push.locked.components[1].files = << AssetsMount >>
    /\ push.locked.components[1].source.content.source # None
    /\ push.locked.components[2].files = << Mount(None) >>

\* C12: the config that push serializes and uploads has no "origin" key in
\* its metadata, and every other key of the application's metadata is there
\* with its value; the manifest names the digest of that config.
C12_OriginRemoved ==
    PushBuilt =>
        LET out == push.config.json.metadata
            inp == push.locked.metadata IN
        /\ "origin" \notin DOMAIN out
        /\ DOMAIN out = (DOMAIN inp) \ {"origin"}
        /\ \A k \in DOMAIN out : out[k] = inp[k]
        /\ push.manifest.config.digest = Sha256(push.config)
        /\ push.result.ok =>
              registry.configs[push.manifest.config.digest] = push.config

\* A successful push of an application whose metadata held "origin" and "name".
C12_Witness ==
    /\ push.pc = "done" /\ push.result.ok
    /\ DOMAIN push.locked.metadata = {"origin", "name"}
    /\ Len(push.locked.components) > 0

Authenticated(p) ==
    { k \in LogIdx : log[k].op = "authenticate" /\ log[k].proc = p }

LoginOk(p) == login[p].pc = "done" /\ login[p].result.ok

\* The credential file maps the host of login p to its encoded credentials.
Persisted(p) ==
    /\ authFile.state = "ok"
    /\ login[p].server \in DOMAIN authFile.auths
    /\ authFile.auths[login[p].server] =
          Base64Encode(login[p].username \o << Colon >> \o login[p].password)

\* p saved before q began.
RanBefore(p, q) ==
    \E k \in LoginSaves(p) : \A j \in Authenticated(q) : k < j

\* C13: two successful logins for different hosts, one run after the other,
\* leave both hosts in the credential file; of two successful logins the one
\* that saved last always has its host in the file.
C13_SequentialKeepsBoth ==
    \A p, q \in DOMAIN login :
        (p # q /\ LoginOk(p) /\ LoginOk(q) /\ login[p].server # login[q].server) =>
            /\ RanBefore(p, q) => (Persisted(p) /\ Persisted(q))
            /\ (\E k \in LoginSaves(p) : \A j \in LoginSaves(q) : j < k) => Persisted(p)

\* Two logins for different hosts both succeeded, run concurrently, and the
\* credential file holds the host of one of them only.
C13_Witness ==
    \E p, q \in DOMAIN login :
        /\ p # q /\ LoginOk(p) /\ LoginOk(q)
        /\ login[p].server # login[q].server
        /\ ~RanBefore(p, q) /\ ~RanBefore(q, p)
        /\ Persisted(p)
        /\ login[q].server \notin DOMAIN authFile.auths

\* The cache after one pull that succeeds walked the layers from cache c.
RECURSIVE SinglePull(_, _)
SinglePull(c, layers) ==
    IF layers = <<>> THEN c
    ELSE IF LayerCached(c, Head(layers)) THEN SinglePull(c, Tail(layers))
    ELSE SinglePull(StoreLayer(c, Head(layers), registry.blobs[Head(layers).digest]),
                    Tail(layers))

\* C14: when two concurrent pulls of one reference have both succeeded, the
\* wasm store and the data store hold, digest by digest, what a single pull
\* of that reference leaves in them, whatever the interleaving.
C14_ConcurrentPullsAgree ==
    (\A p \in DOMAIN pull : pull[p].pc = "done" /\ pull[p].result.ok) =>
        \A p \in DOMAIN pull :
            /\ cache.wasm = SinglePull(pull[p].cache0, pull[p].manifest.layers).wasm
            /\ cache.data = SinglePull(pull[p].cache0, pull[p].manifest.layers).data

\* Both pulls succeeded after each fetched and wrote the same layer, and a
\* later layer of the same digest and another media type was skipped.
C14_Witness ==
    /\ \A p \in {"p1", "p2"} :
        /\ p \in DOMAIN pull
        /\ pull[p].pc = "done" /\ pull[p].result.ok
        /\ \E k \in LogIdx :
              log[k].op = "write_layer" /\ log[k].proc = p /\ log[k].idx = 1
    /\ Len(pull["p1"].manifest.layers) = 2
    /\ pull["p1"].manifest.layers[1].digest = pull["p1"].manifest.layers[2].digest
    /\ pull["p1"].manifest.layers[1].media_type # pull["p1"].manifest.layers[2].media_type

\* The regular files below a directory, at any depth.
RegularFilesUnder(root) ==
    { f \in FsPaths :
        /\ FsKind(f) = "file"
        /\ Len(f) > Len(root)
        /\ SubSeq(f, 1, Len(root)) = root }

\* The entry of a regular file f found under the mount directory root.
EntryOf(f, root) ==
    ContentPath(ContentRef(None, Some(Sha256(FsBytes(f)))),
                SubSeq(f, Len(root) + 1, Len(f)))

\* The mount directory of the m-th file mount of a component.
MountDir(c, m) == c.files[m].content.source[1][2]

\* The regular files of a component, mount by mount.
MountedFiles(c) ==
    UNION { { << m, f >> : f \in RegularFilesUnder(MountDir(c, m)) } :
            m \in 1..Len(c.files) }

\* C15: in the config push serializes, the file list of every component has
\* one entry for each regular file under each of its mount directories and no
\* other: directories and symlinks give none, byte-identical files one each,
\* and the path of an entry is the file's path relative to its mount root. A
\* mount directory without regular files does not make push fail.
C15_OneEntryPerFile ==
    /\ PushBuilt =>
        LET out == push.config.json.components
            inp == push.locked.components IN
        \A i \in 1..Len(inp) :
            /\ Len(out[i].files) = Cardinality(MountedFiles(inp[i]))
            /\ \A x \in MountedFiles(inp[i]) :
                LET e == EntryOf(x[2], MountDir(inp[i], x[1])) IN
                Cardinality({ j \in 1..Len(out[i].files) : out[i].files[j] = e })
                  = Cardinality({ y \in MountedFiles(inp[i]) :
                                    EntryOf(y[2], MountDir(inp[i], y[1])) = e })
    /\ (/\ push.pc = "done" /\ ParseReference(push.refstr).ok
        /\ ~LacksSource(push.locked) /\ SourcesExist(push.locked)) =>
            push.result.err \in
                {"none", "cannot push Spin application", "cannot create locked app"}

\* A successful push of a component that mounts two directories holding four
\* regular files, a directory and a symlink, and of a component that mounts
\* an empty directory.
C15_Witness ==
    /\ push.pc = "done" /\ push.result.ok
    /\ \E i, j \in 1..Len(push.locked.components) :
        /\ push.locked.components[i].files = << StaticMount, AssetsMount >>
        /\ Len(push.config.json.components[i].files) = 4
        /\ push.locked.components[j].files = << EmptyMount >>
        /\ push.config.json.components[j].files = <<>>

\* No other login saved before login p did.
SavedFirst(p) ==
    \A q \in DOMAIN login : \A j \in LoginSaves(q) :
        \E k \in LoginSaves(p) : k <= j

\* C16: a login never ends with the error of a load: over a missing or an
\* unparsable credential file a login that validated and saved has written a
\* table holding the new host's entry and nothing else; a login that
\* validated and did not save returns an error. Only a configuration
\* directory that cannot be located, which no save can succeed in either,
\* ends a login between validation and save.
C16_LoadNeverFailsLogin ==
    \A p \in DOMAIN login :
        /\ login[p].pc = "done" =>
              login[p].result.err \in
                  { "none", "cannot authenticate", "cannot save authentication file",
                    "Cannot find configuration directory" }
        /\ login[p].result.err = "Cannot find configuration directory" =>
              authFile.state = "nodir"
        /\ (LoginOk(p) /\ login[p].before.state \in {"missing", "corrupt"}
                /\ SavedFirst(p)) =>
              /\ DOMAIN login[p].auths = { login[p].server }
              /\ login[p].auths[login[p].server] =
                    Base64Encode(login[p].username \o << Colon >> \o login[p].password)
        /\ (login[p].pc = "done" /\ LoginSaves(p) = {}) => ~login[p].result.ok

\* A login over an unparsable file succeeded and the file now holds its
\* entry alone, while the other login validated and failed to save.
C16_Witness ==
    \E p, q \in DOMAIN login :
        /\ LoginOk(p) /\ login[p].before.state = "corrupt"
        /\ authFile = FileOf(login[p].auths)
        /\ DOMAIN authFile.auths = { login[p].server }
        /\ login[q].pc = "done"
        /\ login[q].result.err = "cannot save authentication file"

\* C17: after a login stored (host, username, password), the resolution of
\* the stored credential for that host returns Basic with that username and
\* that password, ':' and empty texts included.
C17_CredentialRoundTrip ==
    \A p \in DOMAIN login :
        (LoginOk(p) /\ resolved.pc = "done" /\ login[p].server = ResolvedServer) =>
            resolved.result = Ok(Basic(login[p].username, login[p].password))

\* The host, with its port if any, that a server argument names.
ArgHost(arg) == IF arg[1] = "https://" THEN Tail(arg) ELSE arg

\* C18: after a successful login with a server argument naming a host, with
\* or without a port, as a bare host or as a URL, a later resolution for a
\* reference whose registry is that host finds the entry the login stored
\* and returns its credential.
C18_KeysAgree ==
    \A p \in DOMAIN login :
        (/\ LoginOk(p) /\ resolved.pc = "done"
         /\ ArgHost(login[p].arg) = ParseReference(resolved.refstr).val.registry) =>
            /\ ResolvedServer \in DOMAIN authFile.auths
            /\ resolved.result.ok
            /\ resolved.result.val.kind = "Basic"
            /\ Base64Encode(resolved.result.val.username \o << Colon >>
                            \o resolved.result.val.password)
                  = Base64Encode(login[p].username \o << Colon >> \o login[p].password)

\* C19: when pull has returned success, every digest the manifest lists is in
\* the wasm or the data store, and the manifest document and the config
\* document the registry served are at the reference's manifest path and
\* lockfile path, whatever the cache held before and however often the
\* manifest lists a digest.
C19_SuccessMaterializes ==
    \A p \in DOMAIN pull :
        (pull[p].pc = "done" /\ pull[p].result.ok) =>
            /\ pull[p].manifest = registry.images[pull[p].key]
            /\ \A i \in 1..Len(pull[p].manifest.layers) :
                  InCache(pull[p].manifest.layers[i].digest)
            /\ pull[p].key \in DOMAIN cache.manifests
            /\ cache.manifests[pull[p].key] = ToJson(pull[p].manifest)
            /\ pull[p].key \in DOMAIN cache.lockfiles
            /\ cache.lockfiles[pull[p].key] =
                  registry.configs[pull[p].manifest.config.digest]

\* A successful pull of a manifest that lists one digest twice and another
\* digest the cache held, over the documents of an earlier pull.
C19_Witness ==
    \E p \in DOMAIN pull :
        /\ pull[p].pc = "done" /\ pull[p].result.ok
        /\ pull[p].key \in DOMAIN pull[p].cache0.manifests
        /\ \E i, j, k \in 1..Len(pull[p].manifest.layers) :
            /\ i < j
            /\ pull[p].manifest.layers[i].digest = pull[p].manifest.layers[j].digest
            /\ pull[p].manifest.layers[i].digest \notin
                  (DOMAIN pull[p].cache0.wasm) \cup (DOMAIN pull[p].cache0.data)
            /\ pull[p].manifest.layers[k].digest \in DOMAIN pull[p].cache0.data

\* The events of pull p with an operation, by index.
PullEvents(p, op) == { k \in LogIdx : log[k].proc = p /\ log[k].op = op }

\* The documents of pull p are at the paths of its reference.
DocsPersisted(p) ==
    /\ pull[p].key \in DOMAIN cache.manifests
    /\ cache.manifests[pull[p].key] = ToJson(pull[p].manifest)
    /\ pull[p].key \in DOMAIN cache.lockfiles
    /\ cache.lockfiles[pull[p].key] = pull[p].cfg

\* C20: pull writes the manifest document before it fetches the config blob
\* and the config document before it checks or fetches a layer. A pull that
\* failed to fetch layer k has left the manifest and the config documents of
\* its reference in place of any earlier ones and the layers before k in the
\* cache; layer k is absent, and so is every later layer that neither the
\* cache held before nor an earlier layer brought.
C20_PersistsInOrder ==
    \A p \in DOMAIN pull :
        /\ \A k \in PullEvents(p, "pull_blob") :
              \E j \in PullEvents(p, "write_manifest") : j < k
        /\ \A k \in PullEvents(p, "pull_blob") \cup PullEvents(p, "write_layer") :
              log[k].idx > 0 =>
                  \E j \in PullEvents(p, "write_config") :
                      /\ j < k
                      /\ \E c \in PullEvents(p, "pull_blob") : log[c].idx = 0 /\ c < j
        /\ pull[p].reached # <<>> => PullEvents(p, "write_config") # {}
        /\ \A k \in PullEvents(p, "pull_blob") :
              (log[k].idx > 0 /\ ~log[k].ok) =>
                  LET layers == pull[p].manifest.layers
                      n == log[k].idx IN
                  /\ DocsPersisted(p)
                  /\ \A i \in 1..(n - 1) : InCache(layers[i].digest)
                  /\ ~InCache(layers[n].digest)
                  /\ \A j \in (n + 1)..Len(layers) :
                        InCache(layers[j].digest) =>
                            \/ layers[j].digest \in (DOMAIN pull[p].cache0.wasm)
                                                    \cup (DOMAIN pull[p].cache0.data)
                            \/ \E i \in 1..(n - 1) : layers[i].digest = layers[j].digest

\* A pull over the documents of an earlier pull wrote its first layer,
\* failed to fetch its second and left its third, uncached, absent.
C20_Witness ==
    \E p \in DOMAIN pull :
        /\ pull[p].pc = "done" /\ ~pull[p].result.ok
        /\ Len(pull[p].manifest.layers) = 3
        /\ pull[p].key \in DOMAIN pull[p].cache0.manifests
        /\ pull[p].cache0.manifests[pull[p].key] # cache.manifests[pull[p].key]
        /\ pull[p].cache0.lockfiles[pull[p].key] # cache.lockfiles[pull[p].key]
        /\ \E k \in PullEvents(p, "write_layer") : log[k].idx = 1
        /\ \E k \in PullEvents(p, "pull_blob") : log[k].idx = 2 /\ ~log[k].ok
        /\ ~InCache(pull[p].manifest.layers[3].digest)

====
